---------------------------- MODULE Spec2Model ----------------------------
(* A model of papersplease.py: the Inspector's policy state, the bulletin  *)
(* parser that mutates it (receive_bulletin) and the staged decision       *)
(* procedure over an entrant's documents (inspect).                        *)
(*                                                                         *)
(* Text is modelled by what the code's string operations see of it:        *)
(*   - a bulletin line is a record of the pieces the substring tests and   *)
(*     the splits of receive_bulletin take apart;                          *)
(*   - a document body is a sequence of lines, each line the list that     *)
(*     entry.strip().split(': ') yields;                                   *)
(*   - a value that the code splits on ', ' (ACCESS, VACCINES) is the      *)
(*     sequence of its items, an EXP value is <<year, month, day>>;        *)
(*   - every other value, every name and every message is a string.        *)
EXTENDS Integers, Sequences, FiniteSets, TLC

(***************************************************************************)
(* Bounds of the model.                                                    *)
(***************************************************************************)
\* Bulletin entries read over a run, documents of an entrant, calls of
\* inspect over a run.
MaxLines == 2
MaxDocs == 2
MaxInspections == 1

(***************************************************************************)
(* Module-level constants of papersplease.py.                              *)
(***************************************************************************)
MISMATCH_FIELDS == <<"NAME", "DOB", "SEX", "ID#", "NATION">>

FIELDS_TO_STR ==
  [f \in {"NAME", "DOB", "SEX", "ID#", "NATION"} |->
     CASE f = "NAME" -> "name"
       [] f = "DOB" -> "date of birth"
       [] f = "SEX" -> "sex"
       [] f = "ID#" -> "ID number"
       [] f = "NATION" -> "nationality"]

TODAY == <<1982, 11, 22>>

COUNTRIES ==
  {"arstotzka", "antegria", "impor", "kolechia", "obristan", "republia",
   "united federation"}

\* Python's None (a missing NAME or NATION), also usable as a dictionary key.
None == "<None>"

(***************************************************************************)
(* String helpers.                                                         *)
(***************************************************************************)
\* str.lower on the words that occur in the model's texts.
Lower(s) ==
  CASE s = "Arstotzka" -> "arstotzka"
    [] s = "Antegria" -> "antegria"
    [] s = "Impor" -> "impor"
    [] s = "Kolechia" -> "kolechia"
    [] s = "Obristan" -> "obristan"
    [] s = "Republia" -> "republia"
    [] s = "United Federation" -> "united federation"
    [] s = "ID" -> "id"
    [] s = "ID card" -> "id card"
    [] OTHER -> s

RECURSIVE Join(_, _)
\* sep.join(words)
Join(words, sep) ==
  IF Len(words) = 0 THEN ""
  ELSE IF Len(words) = 1 THEN words[1]
  ELSE words[1] \o sep \o Join(Tail(words), sep)

Range(s) == {s[i] : i \in 1..Len(s)}

\* The sequences that list every element of the set S exactly once.
Orders(S) ==
  {s \in [1..Cardinality(S) -> S] : Range(s) = S}

\* The subsequence of ord made of the elements of S: the order in which a
\* for loop over the set S visits it, given the global visiting order ord.
RECURSIVE Restrict(_, _)
Restrict(ord, S) ==
  IF Len(ord) = 0 THEN <<>>
  ELSE IF Head(ord) \in S THEN <<Head(ord)>> \o Restrict(Tail(ord), S)
  ELSE Restrict(Tail(ord), S)

(***************************************************************************)
(* defaultdict(set): a function on the keys it has entries for.            *)
(***************************************************************************)
\* d[k] as an expression: the value read (an absent key reads as set()).
Get(d, k) == IF k \in DOMAIN d THEN d[k] ELSE {}

\* d[k] as a side effect: reading an absent key inserts it with set().
Touch(d, k) == IF k \in DOMAIN d THEN d ELSE d @@ (k :> {})

\* d[k].add(x)
AddTo(d, k, x) == [Touch(d, k) EXCEPT ![k] = @ \cup {x}]

\* A removal that empties the whole set of the category.
RemoveFromClear(d, k, x) == [d EXCEPT ![k] = {}]

\* d[k].remove(x), for x in d[k]
RemoveFrom(d, k, x) == [d EXCEPT ![k] = @ \ {x}]

\* set().union(*d.values())
UnionValues(d) == UNION {d[k] : k \in DOMAIN d}


(***************************************************************************)
(* The Inspector's state (Inspector.__init__).                             *)
(***************************************************************************)
VARIABLES
  allowed_countries,      \* set of lower-case nation names
  required_documents,     \* defaultdict(set): category -> document types
  required_vaccinations,  \* defaultdict(set): category -> diseases
  wanted_criminals,       \* set of "Last, First" strings
  work_pass_required,     \* flag
  pc,                     \* where the caller is: "idle" between calls,
                          \* "reading" inside the loop of receive_bulletin,
                          \* "raised" when the call ended in an exception,
                          \* "inspected" when inspect has ended
  op,                     \* the step just taken: its input, its outcome and
                          \* the policy before it
  wantedSeen,             \* history: the names (as their words) of the
                          \* "Wanted by the State: " entries applied so far
  lastWorkers,            \* history: the verb of the last "Workers" entry
                          \* applied so far, "none" before the first
  nLines,                 \* bulletin entries read so far
  nInspections            \* calls of inspect so far

vars ==
  <<allowed_countries, required_documents, required_vaccinations,
    wanted_criminals, work_pass_required, pc, op, wantedSeen, lastWorkers,
    nLines, nInspections>>

\* The five fields of self, as one record.
Policy ==
  [allowed_countries |-> allowed_countries,
   required_documents |-> required_documents,
   required_vaccinations |-> required_vaccinations,
   wanted_criminals |-> wanted_criminals,
   work_pass_required |-> work_pass_required]

InitPolicy ==
  [allowed_countries |-> {"arstotzka"},
   required_documents |-> <<>>,
   required_vaccinations |-> <<>>,
   wanted_criminals |-> {},
   work_pass_required |-> FALSE]

(***************************************************************************)
(* Bulletin lines.  A line is the record of what receive_bulletin's tests  *)
(* see of its text:                                                        *)
(*   head        what the line starts with, when that is one of the three  *)
(*               prefixes of lines 94, 99, 104 ("" otherwise)              *)
(*   subject     "Citizens of ", "Workers", "Foreigners", "Entrants" or    *)
(*               any other opening of a requirement line                   *)
(*   names       the ', '-separated names after the prefix or "of "        *)
(*   name        the ' '-separated words after "Wanted by the State: "     *)
(*   verb        " require", " no longer require", or "" when the line     *)
(*               holds neither                                             *)
(*   requirement the ' '-separated words after "require "                  *)
(***************************************************************************)
Line(head, subject, names, name, verb, requirement) ==
  [head |-> head, subject |-> subject, names |-> names, name |-> name,
   verb |-> verb, requirement |-> requirement]

AllowLine(names) == Line("Allow citizens of ", "", names, <<>>, "", <<>>)
DenyLine(names) == Line("Deny citizens of ", "", names, <<>>, "", <<>>)
WantedLine(name) == Line("Wanted by the State: ", "", <<>>, name, "", <<>>)
RequireLine(subject, names, requirement) ==
  Line("", subject, names, <<>>, " require", requirement)
NoLongerLine(subject, names, requirement) ==
  Line("", subject, names, <<>>, " no longer require", requirement)
\* A line none of the markers occurs in, such as "Glory to Arstotzka".
PlainLine == Line("", "Glory", <<>>, <<>>, "", <<>>)

\* ", ".join(S): the elements of the set S in some order.
RECURSIVE JoinSet(_)
JoinSet(S) ==
  IF S = {} THEN <<>>
  ELSE LET x == CHOOSE y \in S : TRUE IN <<x>> \o JoinSet(S \ {x})

\* The macros with Foreigners naming every nation, the home nation too.
ExpandEveryone(entry) ==
  IF entry.subject \in {"Foreigners", "Entrants"}
  THEN [entry EXCEPT !.subject = "Citizens of ", !.names = JoinSet(COUNTRIES)]
  ELSE entry

\* Lines 84-90: the macros Foreigners and Entrants.
Expand(entry) ==
  IF entry.subject = "Foreigners"
  THEN [entry EXCEPT !.subject = "Citizens of ",
                     !.names = JoinSet(COUNTRIES \ {"arstotzka"})]
  ELSE IF entry.subject = "Entrants"
  THEN [entry EXCEPT !.subject = "Citizens of ", !.names = JoinSet(COUNTRIES)]
  ELSE entry

\* set(map(str.lower, countries))
LowerSet(names) == {Lower(names[i]) : i \in 1..Len(names)}

\* 'vaccination' in requirement
IsVaccination(requirement) ==
  \E i \in 1..Len(requirement) : requirement[i] = "vaccination"

\* " ".join(requirement.split(' ')[:-1])
Disease(requirement) == Join(SubSeq(requirement, 1, Len(requirement) - 1), " ")

\* The removal loop with discard where the code has remove: an absent
\* entry is skipped.
RECURSIVE RemoveLoopDiscard(_, _, _)
RemoveLoopDiscard(d, cats, x) ==
  IF Len(cats) = 0 THEN [d |-> d, ok |-> TRUE]
  ELSE LET k == Lower(Head(cats))
       IN RemoveLoopDiscard(RemoveFrom(Touch(d, k), k, x), Tail(cats), x)

\* Lines 123-127: for category in categories: d[category.lower()].remove(x),
\* visiting the categories in the order cats.  A KeyError ends the loop.
RECURSIVE RemoveLoop(_, _, _)
RemoveLoop(d, cats, x) ==
  IF Len(cats) = 0 THEN [d |-> d, ok |-> TRUE]
  ELSE LET k == Lower(Head(cats))
           d1 == Touch(d, k)
       IN IF x \in d1[k]
          THEN RemoveLoop(RemoveFrom(d1, k, x), Tail(cats), x)
          ELSE [d |-> d1, ok |-> FALSE]

\* Lines 143-147: for category in categories: d[category.lower()].add(x)
RECURSIVE AddLoop(_, _, _)
AddLoop(d, cats, x) ==
  IF Len(cats) = 0 THEN d
  ELSE AddLoop(AddTo(d, Lower(Head(cats)), x), Tail(cats), x)

(***************************************************************************)
(* receive_bulletin.                                                       *)
(***************************************************************************)
WithDocuments(p, d) == [p EXCEPT !.required_documents = d]
WithVaccinations(p, d) == [p EXCEPT !.required_vaccinations = d]

\* Allow with ^ (symmetric difference) where the code has union.
AllowToggle(p, entry) ==
  [p EXCEPT !.allowed_countries =
     (@ \ LowerSet(entry.names)) \cup (LowerSet(entry.names) \ @)]

\* Lines 94-97
Allow(p, entry) ==
  [p EXCEPT !.allowed_countries = @ \cup LowerSet(entry.names)]

\* Lines 99-102
Deny(p, entry) ==
  [p EXCEPT !.allowed_countries = @ \ LowerSet(entry.names)]

\* Wanted, storing the name in the order of the bulletin.
WantedAsWritten(p, entry) ==
  IF Len(entry.name) = 2
  THEN [p |-> [p EXCEPT !.wanted_criminals =
                          @ \cup {entry.name[1] \o " " \o entry.name[2]}],
        ok |-> TRUE]
  ELSE [p |-> p, ok |-> FALSE]

\* Lines 104-107: first, last = name.split(' ') raises unless there are
\* exactly two words.
Wanted(p, entry) ==
  IF Len(entry.name) = 2
  THEN [p |-> [p EXCEPT !.wanted_criminals =
                          @ \cup {entry.name[2] \o ", " \o entry.name[1]}],
        ok |-> TRUE]
  ELSE [p |-> p, ok |-> FALSE]

\* Lines 109-127.  ord is the order in which this run of the interpreter
\* visits the elements of a set of names.
NoLongerRequire(p, entry, ord) ==
  IF entry.subject = "Citizens of "
  THEN LET cats == Restrict(ord, Range(entry.names))
       IN IF IsVaccination(entry.requirement)
          THEN LET r == RemoveLoop(p.required_vaccinations, cats,
                                   Disease(entry.requirement))
               IN [p |-> WithVaccinations(p, r.d), ok |-> r.ok]
          ELSE LET r == RemoveLoop(p.required_documents, cats,
                                   Join(entry.requirement, " "))
               IN [p |-> WithDocuments(p, r.d), ok |-> r.ok]
  ELSE IF entry.subject = "Workers"
  THEN [p |-> [p EXCEPT !.work_pass_required = FALSE], ok |-> TRUE]
  ELSE [p |-> p, ok |-> FALSE]

\* Lines 129-147.  The order of the additions does not show in the result.
Require(p, entry) ==
  IF entry.subject = "Citizens of "
  THEN LET cats == JoinSet(Range(entry.names))
       IN IF IsVaccination(entry.requirement)
          THEN [p |-> WithVaccinations(p,
                        AddLoop(p.required_vaccinations, cats,
                                Disease(entry.requirement))),
                ok |-> TRUE]
          ELSE [p |-> WithDocuments(p,
                        AddLoop(p.required_documents, cats,
                                Join(entry.requirement, " "))),
                ok |-> TRUE]
  ELSE IF entry.subject = "Workers"
  THEN [p |-> [p EXCEPT !.work_pass_required = TRUE], ok |-> TRUE]
  ELSE [p |-> p, ok |-> FALSE]

\* One pass of the loop body, lines 82-150: the policy after the line and
\* whether the line ended without raising.
ApplyLine(p, line, ord) ==
  LET entry == Expand(line)
  IN IF entry.head = "Allow citizens of "
     THEN [p |-> Allow(p, entry), ok |-> TRUE]
     ELSE IF entry.head = "Deny citizens of "
     THEN [p |-> Deny(p, entry), ok |-> TRUE]
     ELSE IF entry.head = "Wanted by the State: "
     THEN Wanted(p, entry)
     ELSE IF entry.verb = " no longer require"
     THEN NoLongerRequire(p, entry, ord)
     ELSE IF entry.verb = " require"
     THEN Require(p, entry)
     ELSE [p |-> p, ok |-> FALSE]

\* The names whose visiting order can show: those of the removal lines.
RemovalNames(line) ==
  IF line.verb = " no longer require" THEN Range(Expand(line).names) ELSE {}

(***************************************************************************)
(* The bulletin lines the model draws from.                                *)
(***************************************************************************)
Vocabulary ==
  {AllowLine(<<"Obristan">>),
   DenyLine(<<"Obristan">>),
   DenyLine(<<"Arstotzka">>),
   WantedLine(<<"John", "Doe">>),
   RequireLine("Workers", <<>>, <<"work", "pass">>),
   NoLongerLine("Workers", <<>>, <<"work", "pass">>),
   RequireLine("Citizens of ", <<"Obristan">>, <<"access", "permit">>),
   NoLongerLine("Citizens of ", <<"Obristan">>, <<"access", "permit">>),
   NoLongerLine("Citizens of ", <<"Obristan", "Impor">>, <<"access", "permit">>),
   RequireLine("Citizens of ", <<"Obristan">>, <<"polio", "vaccination">>),
   NoLongerLine("Citizens of ", <<"Obristan">>, <<"polio", "vaccination">>),
   RequireLine("Entrants", <<>>, <<"access", "permit">>),
   RequireLine("Foreigners", <<>>, <<"passport">>),
   RequireLine("Citizens of ", <<"Impor">>, <<"ID", "card">>),
   RequireLine("Citizens of ", <<"Obristan">>, <<"work", "pass">>),
   PlainLine}

(***************************************************************************)
(* Documents.                                                              *)
(***************************************************************************)
\* parse_document: the body is a sequence of lines, each the list that
\* entry.strip().split(': ') yields.  title, data = ... raises ValueError
\* unless that list has exactly two elements.
ParseOk(body) == \A i \in 1..Len(body) : Len(body[i]) = 2

\* parsed[title] = data, line by line: the last line with a key decides.
ParseDocument(body) ==
  [k \in {body[i][1] : i \in 1..Len(body)} |->
     body[CHOOSE i \in 1..Len(body) :
            /\ body[i][1] = k
            /\ \A j \in (i + 1)..Len(body) : body[j][1] # k][2]]

\* document_title.replace('_', ' ').lower(), of a title given as the words
\* its underscores separate.
NormalizeTitle(title) ==
  Join([i \in 1..Len(title) |-> Lower(title[i])], " ")

\* The dictionary of lines 174-177, as the sequence of its items in
\* insertion order: a repeated key keeps its place and takes the new value.
Put(items, title, doc) ==
  IF \E i \in 1..Len(items) : items[i].title = title
  THEN [i \in 1..Len(items) |->
          IF items[i].title = title THEN [title |-> title, doc |-> doc]
          ELSE items[i]]
  ELSE Append(items, [title |-> title, doc |-> doc])

\* The dictionary after the first n passes of the loop of lines 175-177.
RECURSIVE BuildDocuments(_, _)
BuildDocuments(entrant, n) ==
  IF n = 0 THEN <<>>
  ELSE Put(BuildDocuments(entrant, n - 1), NormalizeTitle(entrant[n].title),
           ParseDocument(entrant[n].body))

Titles(documents) == {documents[i].title : i \in 1..Len(documents)}

\* documents[title], for a title in documents
DocOf(documents, title) ==
  documents[CHOOSE i \in 1..Len(documents) : documents[i].title = title].doc

\* check_mismatches, lines 30-40
FieldValues(documents, f) ==
  {documents[i].doc[f] :
     i \in {j \in 1..Len(documents) : f \in DOMAIN documents[j].doc}}

check_mismatches(documents) ==
  SelectSeq([i \in 1..Len(MISMATCH_FIELDS) |->
               [field |-> MISMATCH_FIELDS[i],
                values |-> FieldValues(documents, MISMATCH_FIELDS[i])]],
            LAMBDA m : Cardinality(m.values) > 1)

\* datetime.strptime(date, '%Y.%m.%d'), of a date given as the numbers its
\* dots separate: it raises ValueError unless they name a day of the calendar.
IsLeap(y) == (y % 4 = 0 /\ y % 100 # 0) \/ y % 400 = 0

DaysInMonth(y, m) ==
  IF m = 2 THEN (IF IsLeap(y) THEN 29 ELSE 28)
  ELSE IF m \in {4, 6, 9, 11} THEN 30 ELSE 31

StrptimeOk(date) ==
  /\ Len(date) = 3
  /\ date[1] \in 1..9999
  /\ date[2] \in 1..12
  /\ date[3] \in 1..DaysInMonth(date[1], date[2])

\* The comparison with <= where the code has <.
BeforeOrEqual(a, b) ==
  \/ a[1] < b[1]
  \/ a[1] = b[1] /\ a[2] < b[2]
  \/ a[1] = b[1] /\ a[2] = b[2] /\ a[3] <= b[3]

\* datetime.__lt__
Before(a, b) ==
  \/ a[1] < b[1]
  \/ a[1] = b[1] /\ a[2] < b[2]
  \/ a[1] = b[1] /\ a[2] = b[2] /\ a[3] < b[3]

\* check_expirations, lines 43-50: the titles of the expired documents, in the
\* dictionary's order, unless strptime raises on one of the dates.
WithExp(documents) ==
  SelectSeq(documents, LAMBDA it : "EXP" \in DOMAIN it.doc)

check_expirations_ok(documents) ==
  \A i \in 1..Len(documents) :
    "EXP" \in DOMAIN documents[i].doc => StrptimeOk(documents[i].doc["EXP"])

check_expirations(documents) ==
  LET expired == SelectSeq(WithExp(documents),
                           LAMBDA it : Before(it.doc["EXP"], TODAY))
  IN [i \in 1..Len(expired) |-> expired[i].title]

\* get_name and get_nationality, lines 53-68: the field of the first
\* document that has it.
FirstField(documents, f) ==
  LET having == SelectSeq(documents, LAMBDA it : f \in DOMAIN it.doc)
  IN IF Len(having) = 0 THEN None ELSE having[1].doc[f]

get_name(documents) == FirstField(documents, "NAME")

get_nationality(documents) == FirstField(documents, "NATION")

(***************************************************************************)
(* inspect.  Each stage below is the code from its first line to the end   *)
(* of the method: it decides, or falls through to the next stage.  rd and  *)
(* rv are the two defaultdicts as the reads made so far have left them.    *)
(***************************************************************************)
Return(s) == [kind |-> "return", value |-> s]
Raise(e) == [kind |-> "raise", value |-> e]

Outcome(result, rd, rv) ==
  [result |-> result, required_documents |-> rd, required_vaccinations |-> rv]

\* The farewell comparing with the name as documents write it.
FarewellCapitalized(nationality) ==
  IF nationality = "Arstotzka" THEN "Glory to Arstotzka." ELSE "Cause no trouble."

\* Lines 247-251
Farewell(nationality) ==
  IF nationality = "arstotzka" THEN "Glory to Arstotzka." ELSE "Cause no trouble."

\* The vaccination stage satisfied by any certificate, whatever it lists.
VaccinationStageAnyCertificate(p, documents, nationality, rd) ==
  LET rv == Touch(p.required_vaccinations, nationality)
  IN IF rv[nationality] # {}
          /\ "certificate of vaccination" \notin Titles(documents)
     THEN Outcome(Return("Entry denied: missing required certificate of vaccination."),
                  rd, rv)
     ELSE Outcome(Return(Farewell(nationality)), rd, rv)

\* Lines 238-251
VaccinationStage(p, documents, nationality, rd) ==
  LET rv == Touch(p.required_vaccinations, nationality)
      required == rv[nationality]
  IN IF required # {}
     THEN IF "certificate of vaccination" \notin Titles(documents)
          THEN Outcome(Return("Entry denied: missing required certificate of vaccination."),
                       rd, rv)
          ELSE LET certificate == DocOf(documents, "certificate of vaccination")
               IN IF "VACCINES" \notin DOMAIN certificate
                  THEN Outcome(Raise("KeyError"), rd, rv)
                  ELSE IF ~(required \subseteq Range(certificate["VACCINES"]))
                  THEN Outcome(Return("Entry denied: missing required vaccination."),
                               rd, rv)
                  ELSE Outcome(Return(Farewell(nationality)), rd, rv)
     ELSE Outcome(Return(Farewell(nationality)), rd, rv)

\* The ban tested after the vaccinations instead of before them.
BanAfterVaccination(p, documents, nationality, rd) ==
  LET o == VaccinationStage(p, documents, nationality, rd)
  IN IF o.result \in
          {Return("Entry denied: missing required certificate of vaccination."),
           Return("Entry denied: missing required vaccination.")}
     THEN o
     ELSE IF nationality \notin p.allowed_countries
     THEN Outcome(Return("Entry denied: citizen of banned nation."),
                  rd, p.required_vaccinations)
     ELSE o

\* The ban of line 235 with the home nation exempt from it.
BanStageHomeExempt(p, documents, nationality, rd) ==
  IF nationality \notin p.allowed_countries \cup {"arstotzka"}
  THEN Outcome(Return("Entry denied: citizen of banned nation."),
               rd, p.required_vaccinations)
  ELSE VaccinationStage(p, documents, nationality, rd)

\* Lines 234-251
BanStage(p, documents, nationality, rd) ==
  IF nationality \notin p.allowed_countries
  THEN Outcome(Return("Entry denied: citizen of banned nation."),
               rd, p.required_vaccinations)
  ELSE VaccinationStage(p, documents, nationality, rd)

\* The branch without its denial of line 225.
NoPermitBranchLenient(p, documents, nationality, rd) ==
  IF "diplomatic authorization" \in Titles(documents)
     /\ "grant of asylum" \notin Titles(documents)
  THEN LET document == DocOf(documents, "diplomatic authorization")
       IN IF "ACCESS" \notin DOMAIN document
          THEN Outcome(Raise("KeyError"), rd, p.required_vaccinations)
          ELSE IF "Arstotzka" \notin Range(document["ACCESS"])
          THEN Outcome(Return("Entry denied: invalid diplomatic authorization."),
                       rd, p.required_vaccinations)
          ELSE BanStage(p, documents, nationality, rd)
  ELSE BanStage(p, documents, nationality, rd)

\* The branch looking at the diplomatic authorization before the grant of
\* asylum.
NoPermitBranchAuthorizationFirst(p, documents, nationality, rd) ==
  IF "diplomatic authorization" \in Titles(documents)
  THEN LET document == DocOf(documents, "diplomatic authorization")
       IN IF "ACCESS" \notin DOMAIN document
          THEN Outcome(Raise("KeyError"), rd, p.required_vaccinations)
          ELSE IF "Arstotzka" \notin Range(document["ACCESS"])
          THEN Outcome(Return("Entry denied: invalid diplomatic authorization."),
                       rd, p.required_vaccinations)
          ELSE BanStage(p, documents, nationality, rd)
  ELSE IF "grant of asylum" \in Titles(documents)
  THEN BanStage(p, documents, nationality, rd)
  ELSE Outcome(Return("Entry denied: missing required access permit."),
               rd, p.required_vaccinations)

\* Lines 213-225: no access permit among the documents.
NoPermitBranch(p, documents, nationality, rd) ==
  IF "grant of asylum" \in Titles(documents)
  THEN BanStage(p, documents, nationality, rd)
  ELSE IF "diplomatic authorization" \in Titles(documents)
  THEN LET document == DocOf(documents, "diplomatic authorization")
       IN IF "ACCESS" \notin DOMAIN document
          THEN Outcome(Raise("KeyError"), rd, p.required_vaccinations)
          ELSE IF "Arstotzka" \notin Range(document["ACCESS"])
          THEN Outcome(Return("Entry denied: invalid diplomatic authorization."),
                       rd, p.required_vaccinations)
          ELSE BanStage(p, documents, nationality, rd)
  ELSE Outcome(Return("Entry denied: missing required access permit."),
               rd, p.required_vaccinations)

\* The branch asking a work pass of every permit, whatever its PURPOSE.
PermitBranchAnyPurpose(p, documents, nationality, rd) ==
  IF p.work_pass_required
  THEN LET permit == DocOf(documents, "access permit")
       IN IF "PURPOSE" \notin DOMAIN permit
          THEN Outcome(Raise("KeyError"), rd, p.required_vaccinations)
          ELSE IF "work pass" \notin Titles(documents)
          THEN Outcome(Return("Entry denied: missing required work pass."),
                       rd, p.required_vaccinations)
          ELSE BanStage(p, documents, nationality, rd)
  ELSE BanStage(p, documents, nationality, rd)

\* Lines 226-232: an access permit among the documents.
PermitBranch(p, documents, nationality, rd) ==
  IF p.work_pass_required
  THEN LET permit == DocOf(documents, "access permit")
       IN IF "PURPOSE" \notin DOMAIN permit
          THEN Outcome(Raise("KeyError"), rd, p.required_vaccinations)
          ELSE IF permit["PURPOSE"] = "WORK" /\ "work pass" \notin Titles(documents)
          THEN Outcome(Return("Entry denied: missing required work pass."),
                       rd, p.required_vaccinations)
          ELSE BanStage(p, documents, nationality, rd)
  ELSE BanStage(p, documents, nationality, rd)

\* Lines 210-251
AccessStage(p, documents, nationality, rd) ==
  IF nationality # "arstotzka"
  THEN LET rd2 == Touch(rd, nationality)
       IN IF "access permit" \in rd2[nationality]
          THEN IF "access permit" \notin Titles(documents)
               THEN NoPermitBranch(p, documents, nationality, rd2)
               ELSE PermitBranch(p, documents, nationality, rd2)
          ELSE BanStage(p, documents, nationality, rd2)
  ELSE BanStage(p, documents, nationality, rd)

\* Line 207: expirations[0].replace("_", " ").  The titles of documents are
\* normalized already, so there is no underscore left to replace.
ExpiredTitle(expirations) == expirations[1]

\* Lines 204-251
ExpirationStage(p, documents, nationality, rd) ==
  IF ~check_expirations_ok(documents)
  THEN Outcome(Raise("ValueError"), rd, p.required_vaccinations)
  ELSE LET expirations == check_expirations(documents)
       IN IF Len(expirations) > 0
          THEN Outcome(Return("Entry denied: " \o ExpiredTitle(expirations)
                              \o " expired."),
                       rd, p.required_vaccinations)
          ELSE AccessStage(p, documents, nationality, rd)

\* Lines 189-191
ResolveNationality(documents) ==
  LET nationality == get_nationality(documents)
  IN IF nationality # None THEN Lower(nationality) ELSE None

\* The required set without the union of line 195: nothing is required of
\* an entrant without nationality.
RequiredDocumentsOfNation(p, nationality) ==
  Get(p.required_documents, nationality)

\* Lines 194-197: the set the loop of line 198 runs over.
RequiredDocuments(p, nationality) ==
  IF nationality = None THEN UnionValues(p.required_documents)
  ELSE Get(p.required_documents, nationality)

\* Lines 198-202: the required documents on which the loop can return.
MissingDocuments(p, documents, nationality) ==
  {r \in RequiredDocuments(p, nationality) :
     r # "access permit" /\ Lower(r) \notin Titles(documents)}

\* Lines 189-251.  The loop of line 198 visits a set: when several required
\* documents are missing it returns on the one it meets first, here pick.
RequiredStage(p, documents, pick) ==
  LET nationality == ResolveNationality(documents)
      rd == IF nationality = None THEN p.required_documents
            ELSE Touch(p.required_documents, nationality)
  IN IF MissingDocuments(p, documents, nationality) # {}
     THEN Outcome(Return("Entry denied: missing required " \o pick \o "."),
                  rd, p.required_vaccinations)
     ELSE ExpirationStage(p, documents, nationality, rd)

\* Line 186
IsWanted(p, name) == name \in p.wanted_criminals

\* Lines 183-251
WantedStage(p, documents, pick) ==
  IF IsWanted(p, get_name(documents))
  THEN Outcome(Return("Detainment: Entrant is a wanted criminal."),
               p.required_documents, p.required_vaccinations)
  ELSE RequiredStage(p, documents, pick)

\* The decision taken from the last mismatch of the list, not the first.
MismatchDecisionLast(mismatches) ==
  "Detainment: " \o FIELDS_TO_STR[mismatches[Len(mismatches)].field] \o " mismatch."

\* Line 181
MismatchDecision(mismatches) ==
  "Detainment: " \o FIELDS_TO_STR[mismatches[1].field] \o " mismatch."

\* Lines 179-251
MismatchStage(p, documents, pick) ==
  LET mismatches == check_mismatches(documents)
  IN IF Len(mismatches) > 0
     THEN Outcome(Return(MismatchDecision(mismatches)),
                  p.required_documents, p.required_vaccinations)
     ELSE WantedStage(p, documents, pick)

\* The whole of inspect, lines 173-251.  An entrant is the sequence of the
\* items of the dictionary passed in: records of a title and a body.
Inspect(p, entrant, pick) ==
  IF \E i \in 1..Len(entrant) : ~ParseOk(entrant[i].body)
  THEN Outcome(Raise("ValueError"), p.required_documents, p.required_vaccinations)
  ELSE MismatchStage(p, BuildDocuments(entrant, Len(entrant)), pick)

\* The values pick can take for an entrant: the missing documents of line
\* 202 when that line is reached with some, and no choice otherwise.
Picks(p, entrant) ==
  IF \E i \in 1..Len(entrant) : ~ParseOk(entrant[i].body) THEN {None}
  ELSE LET documents == BuildDocuments(entrant, Len(entrant))
           missing == MissingDocuments(p, documents, ResolveNationality(documents))
       IN IF missing = {} THEN {None} ELSE missing

(***************************************************************************)
(* The entrants the model draws from: the sequences of at most MaxDocs     *)
(* documents of the pool below with pairwise different titles (an entrant  *)
(* is a dictionary keyed by title).                                        *)
(***************************************************************************)
Document(title, body) == [title |-> title, body |-> body]

DocumentPool ==
  {Document(<<"passport">>,
     << <<"NAME", "Doe, John">>, <<"DOB", "1933.11.28">>, <<"ID#", "GC07D-FU8AR">>,
        <<"NATION", "Obristan">>, <<"EXP", <<1983, 1, 2>> >> >>),
   Document(<<"passport">>,
     << <<"NAME", "John Doe">>, <<"DOB", "1933.11.28">>, <<"ID#", "GC07D-FU8AR">>,
        <<"NATION", "Arstotzka">>, <<"EXP", <<1982, 11, 22>> >> >>),
   Document(<<"ID", "card">>,
     << <<"NAME", "Doe, John">>, <<"DOB", "1933.11.28">>, <<"NATION", "Impor">>,
        <<"EXP", <<1981, 12, 30>> >> >>),
   Document(<<"ID", "card">>,
     << <<"NAME", "Doe, John">>, <<"NATION", "Obristan", "HEIGHT", "180cm">> >>),
   Document(<<"access", "permit">>,
     << <<"NAME", "Doe, John">>, <<"ID#", "GC07D-FU8AR">>, <<"NATION", "Obristan">>,
        <<"PURPOSE", "WORK">>, <<"EXP", <<1983, 1, 2>> >> >>),
   Document(<<"access", "permit">>,
     << <<"NAME", "Doe, John">>, <<"ID#", "XXXXX-XXXXX">>, <<"NATION", "Obristan">>,
        <<"PURPOSE", "TRANSIT">>, <<"EXP", <<1982, 11, 21>> >> >>),
   Document(<<"access", "permit">>,
     << <<"NATION", "Obristan">> >>),
   Document(<<"access", "permit">>,
     << <<"NATION", "Obristan">>, <<"PURPOSE", "TRANSIT">> >>),
   Document(<<"grant", "of", "asylum">>,
     << <<"NAME", "Doe, John">>, <<"DOB", "1940.01.01">>, <<"NATION", "Obristan">>,
        <<"EXP", <<1982, 11, 23>> >> >>),
   Document(<<"diplomatic", "authorization">>,
     << <<"NATION", "Obristan">>, <<"ACCESS", <<"Impor", "Arstotzka">> >> >>),
   Document(<<"diplomatic", "authorization">>,
     << <<"NATION", "Obristan">>, <<"ACCESS", <<"Obristan">> >> >>),
   Document(<<"certificate", "of", "vaccination">>,
     << <<"NAME", "Doe, John">>, <<"VACCINES", <<"measles", "polio">> >> >>),
   Document(<<"certificate", "of", "vaccination">>,
     << <<"VACCINES", <<"measles">> >> >>),
   Document(<<"work", "pass">>,
     << <<"NAME", "Doe, John">>, <<"EXP", <<1982, 11, 23>> >> >>),
   Document(<<"work", "pass">>,
     << <<"NAME", "Doe, John">>, <<"EXP", <<1982, 11, 31>> >> >>)}

Entrants ==
  {e \in UNION {[1..n -> DocumentPool] : n \in 0..MaxDocs} :
     \A i, j \in 1..Len(e) : i # j => e[i].title # e[j].title}

NoOp == [kind |-> "none"]

Init ==
  /\ allowed_countries = InitPolicy.allowed_countries
  /\ required_documents = InitPolicy.required_documents
  /\ required_vaccinations = InitPolicy.required_vaccinations
  /\ wanted_criminals = InitPolicy.wanted_criminals
  /\ work_pass_required = InitPolicy.work_pass_required
  /\ pc = "idle"
  /\ op = NoOp
  /\ wantedSeen = {}
  /\ lastWorkers = "none"
  /\ nLines = 0
  /\ nInspections = 0

SetPolicy(p) ==
  /\ allowed_countries' = p.allowed_countries
  /\ required_documents' = p.required_documents
  /\ required_vaccinations' = p.required_vaccinations
  /\ wanted_criminals' = p.wanted_criminals
  /\ work_pass_required' = p.work_pass_required

\* One pass of the loop of receive_bulletin over entry number k of the
\* bulletin: the entry is applied, or it raises and the call ends there.
ReadEntry(k) ==
  /\ nLines < MaxLines
  /\ \E line \in Vocabulary :
       \E ord \in Orders(RemovalNames(line)) :
         LET r == ApplyLine(Policy, line, ord)
         IN /\ SetPolicy(r.p)
            /\ pc' = IF r.ok THEN "reading" ELSE "raised"
            /\ op' = [kind |-> "entry", k |-> k, line |-> line,
                      ok |-> r.ok, before |-> Policy]
            /\ wantedSeen' =
                 IF line.head = "Wanted by the State: " /\ r.ok
                 THEN wantedSeen \cup {line.name} ELSE wantedSeen
            /\ lastWorkers' =
                 IF line.head = "" /\ line.subject = "Workers" /\ r.ok
                 THEN line.verb ELSE lastWorkers
  /\ nLines' = nLines + 1
  /\ UNCHANGED nInspections

\* A call of receive_bulletin, up to the end of its first entry.
ReceiveBulletin ==
  /\ pc = "idle"
  /\ ReadEntry(1)

\* The loop goes on to the next entry of the bulletin.
NextEntry ==
  /\ pc = "reading"
  /\ ReadEntry(op.k + 1)

\* The bulletin has no more entries: the loop ends and the call returns.
ReturnBulletin ==
  /\ pc = "reading"
  /\ pc' = "idle"
  /\ op' = NoOp
  /\ UNCHANGED <<allowed_countries, required_documents, required_vaccinations,
                 wanted_criminals, work_pass_required, wantedSeen,
                 lastWorkers, nLines, nInspections>>

\* The exception of a failed entry leaves receive_bulletin: no entry after
\* it is read.
RaiseBulletin ==
  /\ pc = "raised"
  /\ pc' = "idle"
  /\ op' = NoOp
  /\ UNCHANGED <<allowed_countries, required_documents, required_vaccinations,
                 wanted_criminals, work_pass_required, wantedSeen,
                 lastWorkers, nLines, nInspections>>

\* A call of inspect, to its return or to the exception that ends it.
InspectEntrant ==
  /\ pc = "idle"
  /\ nInspections < MaxInspections
  /\ \E entrant \in Entrants :
       \E pick \in Picks(Policy, entrant) :
         LET o == Inspect(Policy, entrant, pick)
         IN /\ required_documents' = o.required_documents
            /\ required_vaccinations' = o.required_vaccinations
            /\ op' = [kind |-> "inspect", entrant |-> entrant,
                      result |-> o.result, before |-> Policy]
  /\ pc' = "inspected"
  /\ nInspections' = nInspections + 1
  /\ UNCHANGED <<allowed_countries, wanted_criminals, work_pass_required,
                 wantedSeen, lastWorkers, nLines>>

\* The caller takes the decision (or the exception) of inspect.
ReturnInspect ==
  /\ pc = "inspected"
  /\ pc' = "idle"
  /\ op' = NoOp
  /\ UNCHANGED <<allowed_countries, required_documents, required_vaccinations,
                 wanted_criminals, work_pass_required, wantedSeen,
                 lastWorkers, nLines, nInspections>>

Next ==
  \/ ReceiveBulletin
  \/ NextEntry
  \/ ReturnBulletin
  \/ RaiseBulletin
  \/ InspectEntrant
  \/ ReturnInspect

Spec == Init /\ [][Next]_vars

(***************************************************************************)
(* What the claims say of an entrant, read off the entrant as it was       *)
(* passed in (op.entrant) and the policy the call started from             *)
(* (op.before).                                                            *)
(***************************************************************************)
Inspected == pc = "inspected"

Decided(s) == Inspected /\ op.result = Return(s)

\* Every line of every document has the form "KEY: value".
WellFormed(e) ==
  \A i \in 1..Len(e) : \A j \in 1..Len(e[i].body) : Len(e[i].body[j]) = 2

\* The documents (by position) that carry field f, and the value there.
Carrying(e, f) ==
  {i \in 1..Len(e) : \E j \in 1..Len(e[i].body) : e[i].body[j][1] = f}

ValueIn(e, i, f) ==
  e[i].body[CHOOSE j \in 1..Len(e[i].body) : e[i].body[j][1] = f][2]

ValuesOf(e, f) == {ValueIn(e, i, f) : i \in Carrying(e, f)}

FirstValue(e, f) ==
  IF Carrying(e, f) = {} THEN None
  ELSE ValueIn(e, CHOOSE i \in Carrying(e, f) :
                    \A k \in Carrying(e, f) : i <= k, f)

Held(e) == {NormalizeTitle(e[i].title) : i \in 1..Len(e)}

NationOf(e) ==
  IF FirstValue(e, "NATION") = None THEN None ELSE Lower(FirstValue(e, "NATION"))

FieldOrder == <<"NAME", "DOB", "SEX", "ID#", "NATION">>

Label(f) ==
  CASE f = "NAME" -> "name" [] f = "DOB" -> "date of birth" [] f = "SEX" -> "sex"
    [] f = "ID#" -> "ID number" [] f = "NATION" -> "nationality"

Disagree(e, f) == Cardinality(ValuesOf(e, f)) > 1

NoMismatch(e) == \A i \in 1..Len(FieldOrder) : ~Disagree(e, FieldOrder[i])

\* A date as the number yyyymmdd: later dates are larger numbers.
DayNumber(date) == date[1] * 10000 + date[2] * 100 + date[3]

DatesValid(e) ==
  \A i \in Carrying(e, "EXP") : StrptimeOk(ValueIn(e, i, "EXP"))

ExpiredDocs(e) ==
  {i \in Carrying(e, "EXP") :
     DayNumber(ValueIn(e, i, "EXP")) < DayNumber(<<1982, 11, 22>>)}

WantedDecision == "Detainment: Entrant is a wanted criminal."

\* The types required of the entrant in stage 3, under policy p.
RequiredOf(p, e) ==
  (IF NationOf(e) = None THEN UNION {p.required_documents[c] : c \in DOMAIN p.required_documents}
   ELSE IF NationOf(e) \in DOMAIN p.required_documents
   THEN p.required_documents[NationOf(e)] ELSE {}) \ {"access permit"}

\* The entrant passes stages 1 to 3, and stages 1 to 4.
Passes3(p, e) ==
  /\ WellFormed(e)
  /\ NoMismatch(e)
  /\ FirstValue(e, "NAME") \notin p.wanted_criminals
  /\ \A r \in RequiredOf(p, e) : Lower(r) \in Held(e)

Passes4(p, e) ==
  /\ Passes3(p, e)
  /\ DatesValid(e)
  /\ ExpiredDocs(e) = {}

Decisions ==
  {"Detainment: " \o Label(FieldOrder[i]) \o " mismatch." : i \in 1..Len(FieldOrder)}
  \cup {WantedDecision,
        "Entry denied: invalid diplomatic authorization.",
        "Entry denied: missing required access permit.",
        "Entry denied: missing required work pass.",
        "Entry denied: citizen of banned nation.",
        "Entry denied: missing required certificate of vaccination.",
        "Entry denied: missing required vaccination.",
        "Glory to Arstotzka.", "Cause no trouble."}
  \cup {"Entry denied: missing required " \o r \o "." :
          r \in UNION {op.before.required_documents[c] :
                         c \in DOMAIN op.before.required_documents}}
  \cup {"Entry denied: " \o t \o " expired." : t \in Held(op.entrant)}

\* C2 as claimed, for the entrants whose lines have exactly one separator
\* and whose EXP values are dates of the calendar.
C2_AlwaysDecides ==
  (Inspected /\ WellFormed(op.entrant) /\ DatesValid(op.entrant))
  => /\ op.result.kind = "return"
     /\ op.result.value \in Decisions

(***************************************************************************)
(* C3.  Claimed: a directive that removes an entry not present is an       *)
(* error, for "no longer require <document>", "no longer require <disease> *)
(* vaccination", "Deny citizens of C" and "Workers no longer require work  *)
(* pass" alike.                                                            *)
(***************************************************************************)
EntryRead == pc \in {"reading", "raised"}

IsRemovalOfCitizens(line) ==
  line.verb = " no longer require" /\ line.subject = "Citizens of "

EndsInVaccination(line) ==
  Len(line.requirement) > 0 /\ line.requirement[Len(line.requirement)] = "vaccination"

\* The requirement of the line is not in force, under p, for one of the
\* categories the line names.
NotRequiredForSome(p, line) ==
  \E i \in 1..Len(line.names) :
    IF EndsInVaccination(line)
    THEN Disease(line.requirement) \notin Get(p.required_vaccinations, Lower(line.names[i]))
    ELSE Join(line.requirement, " ") \notin Get(p.required_documents, Lower(line.names[i]))

DeniesAbsent(p, line) ==
  /\ line.head = "Deny citizens of "
  /\ \E i \in 1..Len(line.names) : Lower(line.names[i]) \notin p.allowed_countries

LiftsAbsentWorkPass(p, line) ==
  /\ line.head = ""
  /\ line.verb = " no longer require"
  /\ line.subject = "Workers"
  /\ ~p.work_pass_required

\* C3 as claimed: each of the four removals of an absent entry raises.
C3_Original ==
  EntryRead =>
    ((\/ IsRemovalOfCitizens(op.line) /\ NotRequiredForSome(op.before, op.line)
      \/ DeniesAbsent(op.before, op.line)
      \/ LiftsAbsentWorkPass(op.before, op.line))
     => pc = "raised")

\* C3 as amended: "Citizens of ... no longer require R" raises when R (a
\* document or a vaccination) is not required for one of the categories
\* named; "Deny citizens of C" with C not allowed and "Workers no longer
\* require work pass" with the flag already false raise nothing and leave
\* the policy as it was.
C3_RemovalOfAbsent ==
  EntryRead =>
    /\ (IsRemovalOfCitizens(op.line) /\ NotRequiredForSome(op.before, op.line))
         => pc = "raised"
    /\ (\/ (DeniesAbsent(op.before, op.line)
              /\ \A i \in 1..Len(op.line.names) :
                   Lower(op.line.names[i]) \notin op.before.allowed_countries)
        \/ LiftsAbsentWorkPass(op.before, op.line))
         => (pc = "reading" /\ Policy = op.before)

C3_Witness ==
  /\ pc = "raised"
  /\ op.line = NoLongerLine("Citizens of ", <<"Obristan">>, <<"polio", "vaccination">>)
  /\ "obristan" \in DOMAIN op.before.required_documents
  /\ "access permit" \in op.before.required_documents["obristan"]

(***************************************************************************)
(* C4.  Claimed: when line k of a bulletin fails, the call ends in the     *)
(* error, the policy is the one lines 1..k-1 left, and no later line has   *)
(* an effect.                                                              *)
(***************************************************************************)
\* The requirements a defaultdict holds: its non-empty entries.
InForce(d) == [k \in {c \in DOMAIN d : d[c] # {}} |-> d[k]]

Rules(p) ==
  [p EXCEPT !.required_documents = InForce(@),
            !.required_vaccinations = InForce(@)]

\* C4 as claimed: in the state the failed call leaves, the rules are those
\* in force before the failing line, that is, those lines 1..k-1 left.
C4_PrefixRemains ==
  pc = "raised" => Rules(Policy) = Rules(op.before)

(***************************************************************************)
(* C5.  inspect answers "Detainment: <label> mismatch." for the first      *)
(* field of NAME, DOB, SEX, ID#, NATION that has more than one value over  *)
(* the entrant's documents, whatever the policy and the later stages.      *)
(***************************************************************************)
FirstDisagreeing(e) ==
  FieldOrder[CHOOSE i \in 1..Len(FieldOrder) :
               /\ Disagree(e, FieldOrder[i])
               /\ \A j \in 1..(i - 1) : ~Disagree(e, FieldOrder[j])]

C5_FirstMismatch ==
  (Inspected /\ WellFormed(op.entrant) /\ ~NoMismatch(op.entrant))
  => op.result =
       Return("Detainment: " \o Label(FirstDisagreeing(op.entrant)) \o " mismatch.")

\* An entrant whose documents disagree on NATION only, who is wanted and
\* holds an expired document.
C5_Witness ==
  /\ Decided("Detainment: nationality mismatch.")
  /\ \A i \in 1..4 : ~Disagree(op.entrant, FieldOrder[i])
  /\ FirstValue(op.entrant, "NAME") \in op.before.wanted_criminals
  /\ ExpiredDocs(op.entrant) # {}

(***************************************************************************)
(* C6.  Where "access permit" is required of a nationality N other than    *)
(* the home nation, an entrant of N who passes stages 1-4 and holds no     *)
(* access permit, grant of asylum or diplomatic authorization is denied    *)
(* for the missing access permit, allowed nation or not; an entrant of the *)
(* home nation never is.                                                   *)
(***************************************************************************)
MissingPermit == "Entry denied: missing required access permit."

C6_MissingAccessPermit ==
  /\ (Inspected /\ Passes4(op.before, op.entrant)
        /\ NationOf(op.entrant) # "arstotzka"
        /\ "access permit" \in Get(op.before.required_documents, NationOf(op.entrant))
        /\ Held(op.entrant) \cap {"access permit", "grant of asylum",
                                  "diplomatic authorization"} = {})
       => op.result = Return(MissingPermit)
  /\ (Inspected /\ WellFormed(op.entrant) /\ NationOf(op.entrant) = "arstotzka")
       => op.result # Return(MissingPermit)

C6_Witness ==
  /\ Decided(MissingPermit)
  /\ NationOf(op.entrant) = "obristan"
  /\ "obristan" \in allowed_countries
  /\ Passes4(op.before, op.entrant)

(***************************************************************************)
(* C7.  Claimed: inspect leaves the policy as it found it, the categories  *)
(* the two requirement mappings have entries for included.                 *)
(***************************************************************************)
C7_ReadOnly ==
  Inspected => Policy = op.before

(***************************************************************************)
(* C8.  "Allow citizens of C" is idempotent: applied to the policy it has  *)
(* just produced, it produces that policy again.                           *)
(***************************************************************************)
C8_AllowIdempotent ==
  (EntryRead /\ op.line.head = "Allow citizens of ")
  => /\ pc = "reading"
     /\ ApplyLine(Policy, op.line, <<>>) = [p |-> Policy, ok |-> TRUE]
     /\ (LowerSet(op.line.names) \subseteq op.before.allowed_countries
           => Policy = op.before)

\* The second of two "Allow citizens of Obristan" in a row.
C8_Witness ==
  /\ pc = "reading"
  /\ op.line = AllowLine(<<"Obristan">>)
  /\ op.k >= 2
  /\ "obristan" \in op.before.allowed_countries
  /\ Policy = op.before

(***************************************************************************)
(* C9.  For an entrant that passes stages 1-3: if a document's EXP is      *)
(* strictly earlier than 1982.11.22, inspect answers "Entry denied:        *)
(* <title> expired." with the normalized title of a document that is       *)
(* expired; a document whose EXP is on or after that date is never named.  *)
(***************************************************************************)
ExpiredDecision(e, i) ==
  "Entry denied: " \o NormalizeTitle(e[i].title) \o " expired."

C9_Expiration ==
  /\ (Inspected /\ Passes3(op.before, op.entrant) /\ DatesValid(op.entrant)
        /\ ExpiredDocs(op.entrant) # {})
       => \E i \in ExpiredDocs(op.entrant) :
            op.result = Return(ExpiredDecision(op.entrant, i))
  /\ (Inspected /\ WellFormed(op.entrant) /\ DatesValid(op.entrant))
       => \A i \in 1..Len(op.entrant) :
            op.result = Return(ExpiredDecision(op.entrant, i))
              => i \in ExpiredDocs(op.entrant)

\* The access permit expired the day before; the document before it is valid.
C9_Witness ==
  /\ Decided("Entry denied: access permit expired.")
  /\ Len(op.entrant) = 2
  /\ 1 \in Carrying(op.entrant, "EXP") \ ExpiredDocs(op.entrant)
  /\ ValueIn(op.entrant, 2, "EXP") = <<1982, 11, 21>>

(***************************************************************************)
(* C10.  An admitted entrant gets "Glory to Arstotzka." exactly when the   *)
(* resolved, lower-cased nationality is arstotzka, and "Cause no trouble." *)
(* otherwise.                                                              *)
(***************************************************************************)
Admitted ==
  Inspected /\ op.result \in {Return("Glory to Arstotzka."), Return("Cause no trouble.")}

C10_Farewell ==
  Admitted =>
    (op.result = Return("Glory to Arstotzka.") <=> NationOf(op.entrant) = "arstotzka")

C10_Witness ==
  /\ Decided("Glory to Arstotzka.")
  /\ FirstValue(op.entrant, "NATION") = "Arstotzka"

(***************************************************************************)
(* The eight stages as the specification words them, each as the set of    *)
(* decisions it can produce for entrant e under policy p: the empty set    *)
(* when the stage lets the entrant continue.                               *)
(***************************************************************************)
\* The position in e of the document whose normalized title is t.
DocNamed(e, t) == CHOOSE i \in 1..Len(e) : NormalizeTitle(e[i].title) = t

\* The items of the list field f of the document titled t (none when the
\* document has no such field), and the value of its plain field f.
ListOf(e, t, f) ==
  IF DocNamed(e, t) \in Carrying(e, f)
  THEN {ValueIn(e, DocNamed(e, t), f)[k] :
          k \in 1..Len(ValueIn(e, DocNamed(e, t), f))}
  ELSE {}

PlainOf(e, t, f) ==
  IF DocNamed(e, t) \in Carrying(e, f) THEN ValueIn(e, DocNamed(e, t), f)
  ELSE None

MismatchDecisions(e) ==
  IF NoMismatch(e) THEN {}
  ELSE {"Detainment: " \o Label(FirstDisagreeing(e)) \o " mismatch."}

WantedDecisions(p, e) ==
  IF FirstValue(e, "NAME") \in p.wanted_criminals THEN {WantedDecision} ELSE {}

MissingOf(p, e) == {r \in RequiredOf(p, e) : Lower(r) \notin Held(e)}

MissingDecisions(p, e) ==
  {"Entry denied: missing required " \o r \o "." : r \in MissingOf(p, e)}

ExpiredDecisions(e) == {ExpiredDecision(e, i) : i \in ExpiredDocs(e)}

InvalidAuthorization == "Entry denied: invalid diplomatic authorization."

MissingWorkPass == "Entry denied: missing required work pass."

\* The chain applies: not the home nation, and access permit required.
PermitRequired(p, e) ==
  /\ NationOf(e) # "arstotzka"
  /\ "access permit" \in Get(p.required_documents, NationOf(e))

ChainDecisions(p, e) ==
  IF ~PermitRequired(p, e) THEN {}
  ELSE IF "access permit" \notin Held(e)
  THEN IF "grant of asylum" \in Held(e) THEN {}
       ELSE IF "diplomatic authorization" \notin Held(e) THEN {MissingPermit}
       ELSE IF "Arstotzka" \in ListOf(e, "diplomatic authorization", "ACCESS")
       THEN {}
       ELSE {InvalidAuthorization}
  ELSE IF /\ p.work_pass_required
          /\ PlainOf(e, "access permit", "PURPOSE") = "WORK"
          /\ "work pass" \notin Held(e)
  THEN {MissingWorkPass}
  ELSE {}

Banned == "Entry denied: citizen of banned nation."

BanDecisions(p, e) ==
  IF NationOf(e) \in p.allowed_countries THEN {} ELSE {Banned}

MissingCertificate ==
  "Entry denied: missing required certificate of vaccination."

MissingVaccination == "Entry denied: missing required vaccination."

VaccinationsOf(p, e) == Get(p.required_vaccinations, NationOf(e))

VaccinationDecisions(p, e) ==
  IF VaccinationsOf(p, e) = {} THEN {}
  ELSE IF "certificate of vaccination" \notin Held(e) THEN {MissingCertificate}
  ELSE IF VaccinationsOf(p, e)
            \subseteq ListOf(e, "certificate of vaccination", "VACCINES")
  THEN {}
  ELSE {MissingVaccination}

AdmissionDecisions(e) ==
  IF NationOf(e) = "arstotzka" THEN {"Glory to Arstotzka."}
  ELSE {"Cause no trouble."}

StageDecisions(p, e) ==
  <<MismatchDecisions(e), WantedDecisions(p, e), MissingDecisions(p, e),
    ExpiredDecisions(e), ChainDecisions(p, e), BanDecisions(p, e),
    VaccinationDecisions(p, e), AdmissionDecisions(e)>>

\* The decisions of the earliest stage that fires.
EarliestDecisions(p, e) ==
  LET s == StageDecisions(p, e)
  IN s[CHOOSE k \in 1..Len(s) : s[k] # {} /\ \A j \in 1..(k - 1) : s[j] = {}]

(***************************************************************************)
(* C11.  Whenever inspect returns (for documents whose lines have one      *)
(* separator and whose EXP values are dates), what it returns is a         *)
(* decision of the earliest stage that fires in the order field            *)
(* consistency, wanted, required documents, expiration, access-permit      *)
(* chain, ban, vaccination, admission: never the decision of a later       *)
(* stage.                                                                  *)
(***************************************************************************)
C11_EarliestStage ==
  (Inspected /\ WellFormed(op.entrant) /\ DatesValid(op.entrant)
     /\ op.result.kind = "return")
  => op.result.value \in EarliestDecisions(op.before, op.entrant)

\* A citizen of a banned nation who also lacks a required vaccination.
C11_Witness ==
  /\ Decided(Banned)
  /\ VaccinationDecisions(op.before, op.entrant) # {}
  /\ Passes4(op.before, op.entrant)

(***************************************************************************)
(* C12.  The set of stage 3 is requiredDocuments of the resolved           *)
(* nationality, or the union over all categories when no document carries  *)
(* NATION, without "access permit".  An entrant who passes stages 1-2 and  *)
(* lacks a type of that set is denied with "Entry denied: missing required *)
(* <type>." for a type of the set that it lacks; and no type that the      *)
(* entrant holds, or that is not in the set, is reported missing.          *)
(***************************************************************************)
\* Every type some category requires, and every type the entrant holds.
TypesInPlay(p, e) ==
  (UNION {p.required_documents[c] : c \in DOMAIN p.required_documents}
     \cup Held(e)) \ {"access permit"}

\* C12 as claimed: a required type is missing when it is not, as the
\* bulletin wrote it, the normalized title of a held document.
C12_Original ==
  (Inspected /\ WellFormed(op.entrant) /\ NoMismatch(op.entrant)
     /\ WantedDecisions(op.before, op.entrant) = {}
     /\ RequiredOf(op.before, op.entrant) \ Held(op.entrant) # {})
  => /\ op.result.kind = "return"
     /\ op.result.value \in
          {"Entry denied: missing required " \o r \o "." :
             r \in RequiredOf(op.before, op.entrant) \ Held(op.entrant)}

\* C12 as amended: a required type is missing when its lower-cased form
\* is not the normalized title of a held document; it is reported as the
\* bulletin wrote it.
C12_RequiredDocuments ==
  /\ (Inspected /\ WellFormed(op.entrant) /\ NoMismatch(op.entrant)
        /\ WantedDecisions(op.before, op.entrant) = {}
        /\ MissingOf(op.before, op.entrant) # {})
       => /\ op.result.kind = "return"
          /\ op.result.value \in MissingDecisions(op.before, op.entrant)
  /\ (Inspected /\ WellFormed(op.entrant))
       => \A r \in TypesInPlay(op.before, op.entrant) :
            op.result = Return("Entry denied: missing required " \o r \o ".")
              => r \in MissingOf(op.before, op.entrant)

\* An entrant without NATION, denied for a passport that only the foreign
\* nations are required to hold.
C12_Witness ==
  /\ Decided("Entry denied: missing required passport.")
  /\ NationOf(op.entrant) = None
  /\ Len(op.entrant) > 0
  /\ "arstotzka" \notin DOMAIN op.before.required_documents

(***************************************************************************)
(* C13.  workPassRequired is true exactly when the last "Workers" line     *)
(* applied was a "require" line (false before the first), and a "Workers"  *)
(* line changes nothing else.  Claimed: inspect answers "Entry denied:     *)
(* missing required work pass." only in the access-permit chain.  The same *)
(* words are the answer of stage 3 when a bulletin has made "work pass" a  *)
(* required document of the entrant's category.                            *)
(***************************************************************************)
IsWorkersLine(line) == line.head = "" /\ line.subject = "Workers"

\* The flag follows the "Workers" lines, which change nothing else.
WorkersLinesSetFlag ==
  /\ work_pass_required = (lastWorkers = " require")
  /\ (EntryRead /\ IsWorkersLine(op.line) /\ op.line.verb # "")
       => /\ pc = "reading"
          /\ Policy = [op.before EXCEPT
                         !.work_pass_required = (op.line.verb = " require")]
  /\ (EntryRead /\ ~IsWorkersLine(op.line))
       => work_pass_required = op.before.work_pass_required
  /\ Inspected => work_pass_required = op.before.work_pass_required

\* The case of the access-permit chain in which a work pass is missing.
WorkPassMissingInChain(p, e) ==
  /\ p.work_pass_required
  /\ NationOf(e) # "arstotzka"
  /\ "access permit" \in Get(p.required_documents, NationOf(e))
  /\ "access permit" \in Held(e)
  /\ PlainOf(e, "access permit", "PURPOSE") = "WORK"
  /\ "work pass" \notin Held(e)

\* C13 as claimed.
C13_Original ==
  /\ WorkersLinesSetFlag
  /\ Decided(MissingWorkPass)
       => WorkPassMissingInChain(op.before, op.entrant)

\* C13 as amended: the denial comes from the chain, or from stage 3 for an
\* entrant of whom the document type "work pass" is required.
C13_WorkPass ==
  /\ WorkersLinesSetFlag
  /\ Decided(MissingWorkPass)
       => \/ WorkPassMissingInChain(op.before, op.entrant)
          \/ "work pass" \in MissingOf(op.before, op.entrant)
  /\ (Inspected /\ Passes4(op.before, op.entrant)
        /\ WorkPassMissingInChain(op.before, op.entrant))
       => op.result = Return(MissingWorkPass)

C13_Witness ==
  /\ Decided(MissingWorkPass)
  /\ WorkPassMissingInChain(op.before, op.entrant)
  /\ lastWorkers = " require"
  /\ "work pass" \notin RequiredOf(op.before, op.entrant)

(***************************************************************************)
(* C14.  "Foreigners require R" adds R to the requirements of every known  *)
(* nation but the home nation, whose set it leaves as it was; "Entrants    *)
(* require R" adds R for every known nation; nothing else changes, and the *)
(* policy is the one "Citizens of <that list> require R" produces.         *)
(***************************************************************************)
IsMacroRequire(line) ==
  /\ line.head = ""
  /\ line.subject \in {"Foreigners", "Entrants"}
  /\ line.verb = " require"

\* The nations a macro stands for, and two ways of listing them.
NationsOf(line) ==
  IF line.subject = "Foreigners" THEN COUNTRIES \ {"arstotzka"} ELSE COUNTRIES

KnownNations ==
  <<"antegria", "arstotzka", "impor", "kolechia", "obristan", "republia",
    "united federation">>

Reversed(s) == [i \in 1..Len(s) |-> s[Len(s) + 1 - i]]

ListingsOf(line) ==
  LET l == SelectSeq(KnownNations, LAMBDA c : c \in NationsOf(line))
  IN {l, Reversed(l)}

\* What the line requires, and the mapping of policy p it is kept in.
RequirementOf(line) ==
  IF EndsInVaccination(line) THEN Disease(line.requirement)
  ELSE Join(line.requirement, " ")

MappingOf(p, line) ==
  IF EndsInVaccination(line) THEN p.required_vaccinations
  ELSE p.required_documents

OtherMappingOf(p, line) ==
  IF EndsInVaccination(line) THEN p.required_documents
  ELSE p.required_vaccinations

C14_MacroExpansion ==
  (EntryRead /\ IsMacroRequire(op.line))
  => /\ pc = "reading"
     /\ \A c \in NationsOf(op.line) :
          Get(MappingOf(Policy, op.line), c)
            = Get(MappingOf(op.before, op.line), c) \cup {RequirementOf(op.line)}
     /\ \A c \in (DOMAIN MappingOf(Policy, op.line)
                    \cup DOMAIN MappingOf(op.before, op.line)
                    \cup {"arstotzka"}) \ NationsOf(op.line) :
          Get(MappingOf(Policy, op.line), c) = Get(MappingOf(op.before, op.line), c)
     /\ OtherMappingOf(Policy, op.line) = OtherMappingOf(op.before, op.line)
     /\ allowed_countries = op.before.allowed_countries
     /\ wanted_criminals = op.before.wanted_criminals
     /\ work_pass_required = op.before.work_pass_required
     /\ \A l \in ListingsOf(op.line) :
          ApplyLine(op.before,
                    RequireLine("Citizens of ", l, op.line.requirement), <<>>)
            = [p |-> Policy, ok |-> TRUE]

\* "Foreigners require passport" read where the home nation has no
\* requirement: it has none afterwards, and obristan has one more.
C14_Witness ==
  /\ pc = "reading"
  /\ op.line = RequireLine("Foreigners", <<>>, <<"passport">>)
  /\ Get(op.before.required_documents, "obristan") # {}
  /\ "passport" \in Get(required_documents, "obristan")
  /\ Get(required_documents, "arstotzka") = {}

(***************************************************************************)
(* C15.  For an entrant that passes stages 1-6 and of whose nationality    *)
(* some vaccination is required: without a certificate of vaccination the  *)
(* answer is the missing certificate; with a certificate whose VACCINES    *)
(* lacks a required disease it is the missing vaccination; with one that   *)
(* lists them all the entrant is admitted.  Where no vaccination is        *)
(* required of the nationality, neither denial is given.                   *)
(***************************************************************************)
\* The entrant passes stages 1 to 6.
Passes6(p, e) ==
  /\ Passes4(p, e)
  /\ ChainDecisions(p, e) = {}
  /\ (PermitRequired(p, e) /\ "access permit" \in Held(e) /\ p.work_pass_required)
       => DocNamed(e, "access permit") \in Carrying(e, "PURPOSE")
  /\ NationOf(e) \in p.allowed_countries

HasVaccinesList(e) ==
  DocNamed(e, "certificate of vaccination") \in Carrying(e, "VACCINES")

C15_Vaccinations ==
  /\ (Inspected /\ Passes6(op.before, op.entrant)
        /\ VaccinationsOf(op.before, op.entrant) # {})
       => IF "certificate of vaccination" \notin Held(op.entrant)
          THEN op.result = Return(MissingCertificate)
          ELSE HasVaccinesList(op.entrant)
               => IF VaccinationsOf(op.before, op.entrant)
                       \subseteq ListOf(op.entrant, "certificate of vaccination",
                                        "VACCINES")
                  THEN Admitted
                  ELSE op.result = Return(MissingVaccination)
  /\ (Inspected /\ WellFormed(op.entrant)
        /\ VaccinationsOf(op.before, op.entrant) = {})
       => op.result \notin {Return(MissingCertificate), Return(MissingVaccination)}

\* A certificate that lists measles where polio is required.
C15_Witness ==
  /\ Decided(MissingVaccination)
  /\ Passes6(op.before, op.entrant)
  /\ "polio" \in VaccinationsOf(op.before, op.entrant)
  /\ ListOf(op.entrant, "certificate of vaccination", "VACCINES") = {"measles"}

(***************************************************************************)
(* C16.  In the access-permit chain with no access permit held, claimed:   *)
(* a diplomatic authorization whose ACCESS does not include the home       *)
(* nation gives "Entry denied: invalid diplomatic authorization.", and an  *)
(* authorization that includes it, or a grant of asylum, lets the entrant  *)
(* pass the chain.  For an entrant who holds both a grant of asylum and an *)
(* authorization without the home nation the two halves disagree; the code *)
(* looks at the grant of asylum first.                                     *)
(***************************************************************************)
\* The entrant is in the chain without an access permit.
InChainWithoutPermit(p, e) ==
  /\ Passes4(p, e)
  /\ PermitRequired(p, e)
  /\ "access permit" \notin Held(e)

HoldsAuthorization(e) ==
  /\ "diplomatic authorization" \in Held(e)
  /\ DocNamed(e, "diplomatic authorization") \in Carrying(e, "ACCESS")

AuthorizationNamesHome(e) ==
  "Arstotzka" \in ListOf(e, "diplomatic authorization", "ACCESS")

\* The decisions with which stage 5 stops an entrant without permit.
ChainDenials == {Return(InvalidAuthorization), Return(MissingPermit)}

\* C16 as claimed.
C16_Original ==
  (Inspected /\ InChainWithoutPermit(op.before, op.entrant))
  => /\ (HoldsAuthorization(op.entrant) /\ ~AuthorizationNamesHome(op.entrant))
          => op.result = Return(InvalidAuthorization)
     /\ (\/ "grant of asylum" \in Held(op.entrant)
         \/ HoldsAuthorization(op.entrant) /\ AuthorizationNamesHome(op.entrant))
          => op.result \notin ChainDenials

\* C16 as amended: the authorization counts only for an entrant who holds
\* no grant of asylum; a grant of asylum passes the chain whatever the
\* authorization says.
C16_DiplomaticAuthorization ==
  (Inspected /\ InChainWithoutPermit(op.before, op.entrant))
  => /\ (HoldsAuthorization(op.entrant) /\ ~AuthorizationNamesHome(op.entrant)
           /\ "grant of asylum" \notin Held(op.entrant))
          => op.result = Return(InvalidAuthorization)
     /\ (\/ "grant of asylum" \in Held(op.entrant)
         \/ HoldsAuthorization(op.entrant) /\ AuthorizationNamesHome(op.entrant))
          => /\ op.result.kind = "return"
             /\ op.result \notin ChainDenials

\* A grant of asylum held with an authorization that names Obristan only.
C16_Witness ==
  /\ Inspected
  /\ InChainWithoutPermit(op.before, op.entrant)
  /\ "grant of asylum" \in Held(op.entrant)
  /\ HoldsAuthorization(op.entrant)
  /\ ~AuthorizationNamesHome(op.entrant)
  /\ op.result = Return(Banned)

(***************************************************************************)
(* C17.  inspect admits only an entrant whose resolved nationality is in   *)
(* allowedCountries when the call is made: an entrant without NATION is    *)
(* never admitted, and neither is a citizen of a nation that is not        *)
(* allowed, the home nation after "Deny citizens of Arstotzka" included.   *)
(***************************************************************************)
C17_AdmitsAllowedOnly ==
  Admitted
  => /\ NationOf(op.entrant) # None
     /\ NationOf(op.entrant) \in op.before.allowed_countries
     /\ NationOf(op.entrant) \in allowed_countries

\* A citizen of the home nation, denied after the home nation was denied.
C17_Witness ==
  /\ Decided(Banned)
  /\ NationOf(op.entrant) = "arstotzka"
  /\ Passes4(op.before, op.entrant)

(***************************************************************************)
(* C18.  Claimed: a line that fails is atomic.  When "Citizens of A, B no  *)
(* longer require R" raises, the policy is the one before the line: what   *)
(* was required of each category named is still required of it, and the    *)
(* other fields are as they were.                                          *)
(***************************************************************************)
C18_FailedLineAtomic ==
  (pc = "raised" /\ IsRemovalOfCitizens(op.line))
  => /\ \A i \in 1..Len(op.line.names) :
          Get(MappingOf(op.before, op.line), Lower(op.line.names[i]))
            \subseteq Get(MappingOf(Policy, op.line), Lower(op.line.names[i]))
     /\ OtherMappingOf(Policy, op.line) = OtherMappingOf(op.before, op.line)
     /\ allowed_countries = op.before.allowed_countries
     /\ wanted_criminals = op.before.wanted_criminals
     /\ work_pass_required = op.before.work_pass_required

(***************************************************************************)
(* C19.  From any reachable policy, "Citizens of C require R" followed by  *)
(* "Citizens of C no longer require R" raises nothing and leaves R not     *)
(* required of C, with C's other requirements, every other category's      *)
(* requirements and the other fields as they were; when R was not required *)
(* of C before, the requirements are those from before the two lines.      *)
(***************************************************************************)
\* The pairs of a category and a requirement the two lines are tried with.
RequirePairs ==
  {[c |-> "Obristan", r |-> <<"access", "permit">>],
   [c |-> "Obristan", r |-> <<"polio", "vaccination">>],
   [c |-> "Impor", r |-> <<"ID", "card">>],
   [c |-> "Impor", r |-> <<"passport">>]}

\* Policy q is policy p with requirement R of line no longer in force for
\* the categories the line names, and nothing else changed.
Lifted(p, q, line) ==
  /\ \A i \in 1..Len(line.names) :
       Get(MappingOf(q, line), Lower(line.names[i]))
         = Get(MappingOf(p, line), Lower(line.names[i])) \ {RequirementOf(line)}
  /\ \A c \in (DOMAIN MappingOf(p, line) \cup DOMAIN MappingOf(q, line))
                \ LowerSet(line.names) :
       Get(MappingOf(q, line), c) = Get(MappingOf(p, line), c)
  /\ InForce(OtherMappingOf(q, line)) = InForce(OtherMappingOf(p, line))
  /\ q.allowed_countries = p.allowed_countries
  /\ q.wanted_criminals = p.wanted_criminals
  /\ q.work_pass_required = p.work_pass_required

\* The two lines applied to policy p, one after the other.
RequireThenLift(p, pair) ==
  LET added == ApplyLine(p, RequireLine("Citizens of ", <<pair.c>>, pair.r), <<>>)
      lifted == ApplyLine(added.p,
                          NoLongerLine("Citizens of ", <<pair.c>>, pair.r),
                          <<pair.c>>)
  IN [ok |-> added.ok /\ lifted.ok, p |-> lifted.p]

C19_RequireThenLift ==
  /\ \A pair \in RequirePairs :
       LET line == NoLongerLine("Citizens of ", <<pair.c>>, pair.r)
           after == RequireThenLift(Policy, pair)
       IN /\ after.ok
          /\ Lifted(Policy, after.p, line)
          /\ RequirementOf(line) \notin Get(MappingOf(Policy, line), Lower(pair.c))
               => Rules(after.p) = Rules(Policy)
  /\ (EntryRead /\ IsRemovalOfCitizens(op.line)
        /\ ~NotRequiredForSome(op.before, op.line))
       => /\ pc = "reading"
          /\ Lifted(op.before, Policy, op.line)

\* The second line of the bulletin "Citizens of Obristan require access
\* permit", "Citizens of Obristan no longer require access permit".
C19_Witness ==
  /\ pc = "reading"
  /\ op.k = 2
  /\ op.line = NoLongerLine("Citizens of ", <<"Obristan">>, <<"access", "permit">>)
  /\ op.before.required_documents = ("obristan" :> {"access permit"})
  /\ Rules(Policy) = Rules(InitPolicy)

=============================================================================
